---- MODULE Spec2Model ----
(***************************************************************************)
(* A model of goblet, a caching proxy for the Git smart-HTTP protocol v2.  *)
(* The model covers the request router (main.go), the three HTTP handlers  *)
(* (handlers.go), the command dispatcher (handleV2Command) and the managed *)
(* repository with its process-wide registry (managed_repository.go).      *)
(*                                                                         *)
(* Strings of the program that the code inspects character by character    *)
(* (URL paths, the Authorization header) are sequences of one-character    *)
(* strings, so that suffix tests, trimming and replacing are computed as   *)
(* the Go library computes them.                                           *)
(***************************************************************************)
EXTENDS Integers, Sequences, FiniteSets, TLC

VARIABLES
    managedRepos,   \* the registry: local path -> identity of a managedRepository
    repos,          \* the managedRepository objects ever constructed, by identity
    disk,           \* the filesystem under the cache root: local path -> directory
    pc,             \* position of each request handler
    req,            \* the HTTP request each handler is serving
    repository,     \* the handler's local variable `repository`
    cmdIdx,         \* index of the command being dispatched
    buff,           \* the handler's response buffer
    resp,           \* the response returned by the handler
    hist,           \* per handler: what the current command has observed
    cancelled,      \* whether the request's context is cancelled
    tasks,          \* the goroutines running fetchUpstream
    stripIn,        \* input of the strip experiment
    stripOut,       \* successive results of stripGitSuffixes on stripIn
    fixIn,          \* the URL given to urlFixer
    fixOut,         \* the URL urlFixer returned for fixIn, once it has
    accessList,     \* the accessList of the mirror whose Add is called
    adders          \* the goroutines calling Add: position, argument, slice read

vars == <<managedRepos, repos, disk, pc, req, repository, cmdIdx, buff, resp,
          hist, cancelled, tasks, stripIn, stripOut, fixIn, fixOut, accessList,
          adders>>

-----------------------------------------------------------------------------
(* Bounds of the model *)

\* number of HTTP requests handled, each by its own goroutine
NumRequests == 2

\* number of pieces a path of the strip experiment is built from
MaxPieces == 3

-----------------------------------------------------------------------------
(* Strings *)

\* strings.HasPrefix at an offset: pat occurs in s starting at position i
MatchesAt(s, i, pat) ==
    /\ i + Len(pat) - 1 <= Len(s)
    /\ \A k \in 1..Len(pat) : s[i + k - 1] = pat[k]

HasSuffix(s, suf) ==
    /\ Len(suf) <= Len(s)
    /\ MatchesAt(s, Len(s) - Len(suf) + 1, suf)

TrimSuffix(s, suf) ==
    IF HasSuffix(s, suf) THEN SubSeq(s, 1, Len(s) - Len(suf)) ELSE s

SInfoRefs == <<"/","i","n","f","o","/","r","e","f","s">>
SGitReceivePack == <<"/","g","i","t","-","r","e","c","e","i","v","e","-","p","a","c","k">>
SGitUploadPack == <<"/","g","i","t","-","u","p","l","o","a","d","-","p","a","c","k">>
SDotGit == <<".","g","i","t">>

\* the old strings of the replacer, in argument order (every new string is "")
ReplacerOlds == <<SInfoRefs, SGitReceivePack, SGitUploadPack, SDotGit>>

\* strings.Replacer.Replace: scan left to right; where an old string matches
\* (the earliest argument wins) emit its replacement "" and skip it, otherwise
\* copy one character.
RECURSIVE ReplaceFrom(_, _)
ReplaceFrom(s, i) ==
    IF i > Len(s) THEN <<>>
    ELSE LET hits == {k \in 1..Len(ReplacerOlds) : MatchesAt(s, i, ReplacerOlds[k])}
         IN  IF hits # {}
             THEN LET k == CHOOSE m \in hits : \A n \in hits : m <= n
                  IN  ReplaceFrom(s, i + Len(ReplacerOlds[k]))
             ELSE <<s[i]>> \o ReplaceFrom(s, i + 1)

stripGitSuffixes(path) == ReplaceFrom(path, 1)

\* The mutable fields of url.URL that the program reads or writes.
URL(scheme, host, path, query) ==
    [Scheme |-> scheme, User |-> "", Host |-> host, Path |-> path,
     RawQuery |-> query, Fragment |-> ""]

\* urlFixer starting from a copy of its argument (result := *u)
MutUrlFixer(u) ==
    [u EXCEPT !.Scheme = "https",
              !.Path = IF HasSuffix(u.Path, SInfoRefs) THEN TrimSuffix(u.Path, SInfoRefs)
                       ELSE IF HasSuffix(u.Path, SGitReceivePack)
                            THEN TrimSuffix(u.Path, SGitReceivePack)
                       ELSE IF HasSuffix(u.Path, SGitUploadPack)
                            THEN TrimSuffix(u.Path, SGitUploadPack)
                       ELSE u.Path]

urlFixer(u) ==
    URL("https", u.Host,
        IF HasSuffix(u.Path, SInfoRefs) THEN TrimSuffix(u.Path, SInfoRefs)
        ELSE IF HasSuffix(u.Path, SGitReceivePack) THEN TrimSuffix(u.Path, SGitReceivePack)
        ELSE IF HasSuffix(u.Path, SGitUploadPack) THEN TrimSuffix(u.Path, SGitUploadPack)
        ELSE u.Path,
        "")

\* filepath.Clean on the paths of the model (no "." or ".." elements):
\* runs of separators collapse and a trailing separator is dropped.
RECURSIVE CollapseSlashes(_)
CollapseSlashes(s) ==
    IF Len(s) <= 1 THEN s
    ELSE IF s[1] = "/" /\ s[2] = "/" THEN CollapseSlashes(Tail(s))
    ELSE <<s[1]>> \o CollapseSlashes(Tail(s))

Clean(s) ==
    LET c == CollapseSlashes(s)
    IN  IF Len(c) > 1 /\ c[Len(c)] = "/" THEN SubSeq(c, 1, Len(c) - 1) ELSE c

\* filepath.Join: empty elements are ignored, the rest joined by "/" and cleaned
RECURSIVE JoinElems(_)
JoinElems(es) ==
    IF es = <<>> THEN <<>>
    ELSE IF Head(es) = <<>> THEN JoinElems(Tail(es))
    ELSE LET rest == JoinElems(Tail(es))
         IN  IF rest = <<>> THEN Head(es) ELSE Head(es) \o <<"/">> \o rest

Join(es) == Clean(JoinElems(es))

\* config.LocalDiskCacheRoot, the -cache_root flag
LocalDiskCacheRoot == <<"/","c">>

getLocalGitRepositoryPath(u) ==
    Join(<<LocalDiskCacheRoot, u.Host, stripGitSuffixes(u.Path)>>)

-----------------------------------------------------------------------------
(* The Authorization header and the credential taken from it *)

UpperCase == {"A","B","C","D","E","F","G","H","I","J","K","L","M",
              "N","O","P","Q","R","S","T","U","V","W","X","Y","Z"}
LowerCase == {"a","b","c","d","e","f","g","h","i","j","k","l","m",
              "n","o","p","q","r","s","t","u","v","w","x","y","z"}
Digits == {"0","1","2","3","4","5","6","7","8","9"}

\* the character class [A-Za-z0-9\\+=] of the pattern
BasicCharClass == UpperCase \cup LowerCase \cup Digits \cup {"\\", "+", "="}

SBasic == <<"B","a","s","i","c"," ">>

\* regexp `^Basic ([A-Za-z0-9\\+=]*)$` followed by FindString: the pattern
\* is anchored at both ends, so the match is the whole header or nothing ("").
FindBasicAuth(header) ==
    IF /\ MatchesAt(header, 1, SBasic)
       /\ \A i \in (Len(SBasic) + 1)..Len(header) : header[i] \in BasicCharClass
    THEN header
    ELSE <<>>

\* Authorization headers clients send: none; two well-formed Basic credentials,
\* the second with the base64 character "/" in it.
NoAuth == <<>>
CredA == SBasic \o <<"Q","Q","=","=">>
CredSlash == SBasic \o <<"Q","/","8","=">>
AuthHeaders == {NoAuth, CredA, CredSlash}

-----------------------------------------------------------------------------
(* The upstream host *)

Host == <<"h">>
SRepo == <<"/","p">> \o SDotGit

\* status of an upstream call for the repository at URL u made with credential
\* auth: the one upstream repository is private and admits the two credentials.
UpstreamStatus(u, auth) ==
    IF u.Host # Host \/ u.Path # SRepo THEN 404
    ELSE IF auth \in {CredA, CredSlash} THEN 200
    ELSE 401

\* the references of the upstream repository, name -> object id
UpstreamRefs == [n \in {"refs/heads/master", "refs/tags/v1"} |->
                    IF n = "refs/heads/master" THEN "h1" ELSE "h2"]

\* the upstream answer to ls-refs: one response chunk per reference, split at
\* the blank as parseLsRefsResponse splits it, and the end-of-response chunk
UpstreamLsRefsChunks ==
    << [Response |-> <<"h1", "refs/heads/master">>, Pack |-> {}],
       [Response |-> <<"h2", "refs/tags/v1">>, Pack |-> {}],
       [Response |-> <<>>, Pack |-> {}] >>

HeadsOnly(refs) == [n \in {m \in DOMAIN refs : m = "refs/heads/master"} |-> refs[n]]

-----------------------------------------------------------------------------
(* Requests *)

\* ProtocolV2RequestChunk; Malformed stands for bytes the scanner rejects
Cmd(name) == [Command |-> name, Argument |-> <<>>, EndRequest |-> FALSE, Malformed |-> FALSE]
Arg(words) == [Command |-> "", Argument |-> words, EndRequest |-> FALSE, Malformed |-> FALSE]
EndReq == [Command |-> "", Argument |-> <<>>, EndRequest |-> TRUE, Malformed |-> FALSE]

\* request bodies, as the sequence of chunks the pkt-line scanner yields
BodyEmpty == <<>>
BodyLsRefs == <<Cmd("ls-refs"), EndReq>>
BodyFetchH1 ==
    <<Cmd("fetch"), Arg(<<"want", "h1">>), Arg(<<"want-ref", "refs/heads/master">>),
      Arg(<<"done">>), EndReq>>
BodyFetchGone == <<Cmd("fetch"), Arg(<<"want", "h9">>), EndReq>>
BodyFetchNone == <<Cmd("fetch"), Arg(<<"done">>), EndReq>>
BodyTwo == BodyFetchNone \o BodyLsRefs
BodyUnknown == <<Cmd("push-certs"), EndReq>>
BodyLsThenUnknown == BodyLsRefs \o BodyUnknown
BodyMalformed ==
    <<Cmd("fetch"), [Command |-> "", Argument |-> <<>>, EndRequest |-> FALSE,
                     Malformed |-> TRUE]>>

Bodies == {BodyEmpty, BodyLsRefs, BodyFetchH1, BodyFetchGone, BodyFetchNone,
           BodyTwo, BodyUnknown}

PathUploadPack == SRepo \o SGitUploadPack
PathInfoRefs == SRepo \o SInfoRefs
PathReceivePack == SRepo \o SGitReceivePack
PathOther == SRepo
\* the repository of SRepo addressed without ".git"
PathNoGitUploadPack == <<"/","p">> \o SGitUploadPack
\* a repository upstream does not have
PathGoneUploadPack == <<"/","x">> \o SDotGit \o SGitUploadPack

\* Body is the pkt-line content of the body, Gzipped tells whether the bytes
\* sent are its gzip compression
Request(path, query, proto, authz, body) ==
    [URL |-> URL("http", Host, path, query), GitProtocol |-> proto,
     Authorization |-> authz, ContentEncoding |-> "", Gzipped |-> FALSE,
     Body |-> body]

\* the request q with a Content-Encoding header and a body compressed or not
Encoded(q, encoding, gzipped) ==
    [q EXCEPT !.ContentEncoding = encoding, !.Gzipped = gzipped]

\* The requests clients send. A credential the pattern does not match is
\* handled as no credential is, so it is sent with one body only.
Requests ==
    {Request(PathUploadPack, "", "version=2", a, b) : a \in {NoAuth, CredA}, b \in Bodies}
    \cup {Request(PathUploadPack, "", "version=2", CredSlash, BodyLsRefs)}
    \cup {Request(PathInfoRefs, s, "version=2", a, BodyEmpty) :
            s \in {"git-upload-pack", "git-receive-pack"}, a \in AuthHeaders}
    \cup {Request(PathReceivePack, "", p, a, BodyEmpty) :
            p \in {"version=2", "version=1", ""}, a \in {NoAuth, CredA}}
    \cup {Request(p, "", "version=1", NoAuth, BodyEmpty) : p \in {PathUploadPack, PathInfoRefs}}
    \cup {Request(PathOther, "", "version=2", NoAuth, BodyEmpty)}
    \cup {Request(PathGoneUploadPack, "", "version=2", NoAuth, BodyLsRefs)}
    \cup {Request(PathNoGitUploadPack, "", "version=2", CredA, BodyLsRefs)}
    \cup {Request(PathUploadPack, "", "version=2", NoAuth, b) :
            b \in {BodyLsThenUnknown, BodyMalformed}}
    \cup {Encoded(Request(PathUploadPack, "", "version=2", CredA, BodyLsRefs), "gzip", g) :
            g \in BOOLEAN}
    \cup {Encoded(Request(PathUploadPack, "", "version=2", NoAuth, BodyLsRefs), "", TRUE)}

NoRequest == [URL |-> URL("", <<>>, <<>>, ""), GitProtocol |-> "",
              Authorization |-> <<>>, ContentEncoding |-> "", Gzipped |-> FALSE,
              Body |-> <<>>]

Handlers == 1..NumRequests


LocalPaths == {getLocalGitRepositoryPath(q.URL) : q \in Requests}

-----------------------------------------------------------------------------
(* Errors and responses *)

\* An error is its text, as a sequence of fragments; no error is <<>>.
Nil == <<>>

Contains(err, word) == \E i \in 1..Len(err) : err[i] = word

Response(status, kind, text, chunks) ==
    [status |-> status, kind |-> kind, text |-> text, chunks |-> chunks]

NoResponse == Response(0, "", <<>>, <<>>)

\* the handler returned a nil response: goproxy forwards the request upstream
PassThrough == Response(0, "forwarded", <<>>, <<>>)

-----------------------------------------------------------------------------
(* Parsing *)

\* parseAllCommands without the switch on the first chunk of a command
MutCommandCheck(chunks) == Nil

\* the end of one command in parseAllCommands: the switch on its first chunk
CommandCheck(chunks) ==
    IF chunks[1].Command \in {"ls-refs", "fetch"} THEN Nil
    ELSE <<"unrecognized command:", chunks[1].Command>>

RECURSIVE ParseLoop(_, _, _, _)
ParseLoop(body, i, chunks, commands) ==
    IF i > Len(body) \/ body[i].EndRequest
    THEN \* the scanner is at the end of the input or of a request
         IF chunks = <<>> THEN [commands |-> commands, err |-> Nil]
         ELSE IF CommandCheck(chunks) # Nil
              THEN [commands |-> <<>>, err |-> CommandCheck(chunks)]
              ELSE ParseLoop(body, i + 1, <<>>, Append(commands, chunks))
    ELSE IF body[i].Malformed
         THEN [commands |-> <<>>, err |-> <<"cannot parse the request:">>]
         ELSE ParseLoop(body, i + 1, Append(chunks, body[i]), commands)

parseAllCommands(body) == ParseLoop(body, 1, <<>>, <<>>)

\* gzip.NewReader reads the gzip header of the body
gzipNewReader(q) == IF q.Gzipped THEN Nil ELSE <<"gzip: invalid header">>

\* what the scanner reads from r.Body: the pkt-lines, or compressed bytes that
\* are no pkt-line when nothing decompressed them
ScannedBody(q) ==
    IF q.Gzipped /\ q.ContentEncoding # "gzip"
    THEN <<[Command |-> "", Argument |-> <<>>, EndRequest |-> FALSE,
            Malformed |-> TRUE]>>
    ELSE q.Body

SelectWords(chunks, keyword) ==
    LET idx == {i \in 1..Len(chunks) :
                  /\ chunks[i].Argument # <<>>
                  /\ chunks[i].Argument[1] = keyword
                  /\ Len(chunks[i].Argument) >= 2}
    IN  {chunks[i].Argument[2] : i \in idx}

\* the hashes of the "want" arguments and the names of the "want-ref" arguments
parseFetchWants(chunks) ==
    [hashes |-> SelectWords(chunks, "want"), refs |-> SelectWords(chunks, "want-ref")]

\* parseLsRefsResponse: reference name -> hash, from the chunks with a Response
parseLsRefsResponse(chunks) ==
    LET idx == {i \in 1..Len(chunks) : chunks[i].Response # <<>>}
        names == {chunks[i].Response[2] : i \in idx}
    IN  [n \in names |->
            LET last == CHOOSE i \in idx :
                          /\ chunks[i].Response[2] = n
                          /\ \A j \in idx : chunks[j].Response[2] = n => j <= i
            IN  chunks[last].Response[1]]

-----------------------------------------------------------------------------
(* The local repository on disk *)

\* A directory under the cache root: absent, a plain directory ("dir", made by
\* MkdirAll) or a bare repository ("bare", after git init --bare and the rest
\* of the init sequence); its references and objects; and how many times the
\* init sequence has run in it.
Dir(state, refs, objects, inits) ==
    [state |-> state, refs |-> refs, objects |-> objects, inits |-> inits]

NoDir == Dir("absent", <<>>, {}, 0)

\* git.PlainOpen succeeds on a repository only
PlainOpenOk(d) == d.state = "bare"

\* g.Reference("HEAD", true): HEAD of a bare repository names refs/heads/master
\* and resolves once that branch exists
HasHEAD(d) == "refs/heads/master" \in DOMAIN d.refs

hasAnyUpdate(d, refs) ==
    IF ~PlainOpenOk(d)
    THEN [val |-> FALSE, err |-> <<"cannot open the local cached repository:">>]
    ELSE [val |-> \E n \in DOMAIN refs : n \notin DOMAIN d.refs \/ d.refs[n] # refs[n],
          err |-> Nil]

\* hasAllWants answering false to a command without wants
MutHasAllWants(d, hashes, refs) ==
    IF ~PlainOpenOk(d)
    THEN [val |-> FALSE, err |-> <<"cannot open the local cached repository:">>]
    ELSE [val |-> /\ hashes \cup refs # {}
                  /\ \A h \in hashes : h \in d.objects
                  /\ \A n \in refs : n \in DOMAIN d.refs,
          err |-> Nil]

hasAllWants(d, hashes, refs) ==
    IF ~PlainOpenOk(d)
    THEN [val |-> FALSE, err |-> <<"cannot open the local cached repository:">>]
    ELSE [val |-> /\ \A h \in hashes : h \in d.objects
                  /\ \A n \in refs : n \in DOMAIN d.refs,
          err |-> Nil]

\* the objects reachable from a set of references
ObjectsOf(refs) == {refs[n] : n \in DOMAIN refs}

-----------------------------------------------------------------------------
(* State *)

\* a managedRepository; mu is <<>> when free, else names the holder of the
\* write lock
Repo(path, u, public, list, mu) ==
    [localDiskPath |-> path, lastUpdate |-> 0, upstreamURL |-> u,
     isPublic |-> public, accessList |-> list, mu |-> mu]

\* LastUpdateTime: the field under the read lock; 0 is the zero time.Time
LastUpdateTime(id) == repos[id].lastUpdate

NoRepo == Repo(<<>>, URL("", <<>>, <<>>, ""), FALSE, <<>>, <<>>)

\* a goroutine running fetchUpstream: st is its position, repo the receiver,
\* notify tells whether its result is sent on the caller's fetchDone channel
Task(st, repo, auth, split, err, notify) ==
    [st |-> st, repo |-> repo, auth |-> auth, split |-> split, err |-> err,
     notify |-> notify]

NoTask == Task("none", 0, <<>>, FALSE, Nil, FALSE)

MaxCommands ==
    CHOOSE n \in 0..8 :
        /\ \A b \in Bodies : Len(parseAllCommands(b).commands) <= n
        /\ \E b \in Bodies : Len(parseAllCommands(b).commands) = n

\* one goroutine at most per command of a request
TaskIds == Handlers \X (1..MaxCommands)

Hist(posts, saw) == [posts |-> posts, sawAllWants |-> saw]

Init ==
    /\ managedRepos = [p \in LocalPaths |-> 0]
    /\ repos = [i \in Handlers |-> NoRepo]
    /\ disk = [p \in LocalPaths |-> NoDir]
    /\ pc = [r \in Handlers |-> "idle"]
    /\ req = [r \in Handlers |-> NoRequest]
    /\ repository = [r \in Handlers |-> 0]
    /\ cmdIdx = [r \in Handlers |-> 1]
    /\ buff = [r \in Handlers |-> <<>>]
    /\ resp = [r \in Handlers |-> NoResponse]
    /\ hist = [r \in Handlers |-> Hist(0, FALSE)]
    /\ cancelled = [r \in Handlers |-> FALSE]
    /\ tasks = [t \in TaskIds |-> NoTask]
    /\ stripIn = <<>>
    /\ stripOut = <<>>
    /\ fixIn = URL("", <<>>, <<>>, "")
    /\ fixOut = <<>>
    /\ accessList = <<>>
    /\ adders = <<>>

\* what each handler derives from its request
auth(r) == FindBasicAuth(req[r].Authorization)

\* parseAllCommands on the body of every request of the model
ParsedRequests == [q \in Requests |-> parseAllCommands(ScannedBody(q))]

commands(r) == ParsedRequests[req[r]].commands
command(r) == commands(r)[cmdIdx[r]]
repo(r) == repos[repository[r]]
localDisk(r) == disk[repo(r).localDiskPath]

-----------------------------------------------------------------------------
(* The registry *)

managedRepositoryExists(u) == managedRepos[getLocalGitRepositoryPath(u)] # 0

\* the identity of the registered repository, 0 when there is none
getManagedRepository(u) == managedRepos[getLocalGitRepositoryPath(u)]

\* the object createManagedRepository constructs
NewManagedRepository(u, a) ==
    LET fixed == urlFixer(u)
    IN  Repo(getLocalGitRepositoryPath(fixed), fixed, a = <<>>,
             IF a # <<>> THEN <<a>> ELSE <<>>, <<>>)

-----------------------------------------------------------------------------
(* The router and the handlers that answer in one step *)

\* the router testing the Git-Protocol header in its default case only
MutRoute(q) ==
    IF HasSuffix(q.URL.Path, SInfoRefs) THEN "info-refs"
    ELSE IF HasSuffix(q.URL.Path, SGitReceivePack) THEN "receive-pack"
    ELSE IF HasSuffix(q.URL.Path, SGitUploadPack) THEN "upload-pack"
    ELSE IF q.GitProtocol # "version=2" THEN "bad-protocol"
    ELSE "unsupported"

Route(q) ==
    IF q.GitProtocol # "version=2" THEN "bad-protocol"
    ELSE IF HasSuffix(q.URL.Path, SInfoRefs) THEN "info-refs"
    ELSE IF HasSuffix(q.URL.Path, SGitReceivePack) THEN "receive-pack"
    ELSE IF HasSuffix(q.URL.Path, SGitUploadPack) THEN "upload-pack"
    ELSE "unsupported"

\* the canned advertisement, one entry per pkt-line
Advertisement ==
    <<"version 2", "ls-refs", "fetch=filter shallow", "server-option", "0000">>

\* handleInfoRefs testing the extracted Basic credential, not the header
MutHandleInfoRefs(q) ==
    IF q.URL.RawQuery # "git-upload-pack"
    THEN Response(400, "text/plain", <<"accepts only git-fetch">>, <<>>)
    ELSE IF ~managedRepositoryExists(q.URL) THEN PassThrough
    ELSE IF getManagedRepository(q.URL) = 0
         THEN Response(500, "text/plain", <<"could not verify if repository exists">>, <<>>)
    ELSE IF /\ ~repos[getManagedRepository(q.URL)].isPublic
            /\ FindBasicAuth(q.Authorization) = <<>>
         THEN Response(401, "text/plain",
                       <<"unauthorized - please send basic auth credentials">>, <<>>)
         ELSE Response(200, "application/x-git-upload-pack-advertisement",
                       <<>>, Advertisement)

handleInfoRefs(q) ==
    IF q.URL.RawQuery # "git-upload-pack"
    THEN Response(400, "text/plain", <<"accepts only git-fetch">>, <<>>)
    ELSE IF ~managedRepositoryExists(q.URL) THEN PassThrough
    ELSE IF getManagedRepository(q.URL) = 0
         THEN Response(500, "text/plain", <<"could not verify if repository exists">>, <<>>)
    ELSE IF /\ ~repos[getManagedRepository(q.URL)].isPublic
            /\ q.Authorization = <<>>
         THEN Response(401, "text/plain",
                       <<"unauthorized - please send basic auth credentials">>, <<>>)
         ELSE Response(200, "application/x-git-upload-pack-advertisement",
                       <<>>, Advertisement)

\* handleGitReceivePack returning no response: the push goes upstream
MutHandleGitReceivePack(q) == PassThrough

handleGitReceivePack(q) ==
    Response(400, "text/plain", <<"git-receive-pack is not supported">>, <<>>)

\* net/http starts a goroutine per request; they are numbered as they start
Arrives(r) == pc[r] = "idle" /\ \A o \in Handlers : o < r => pc[o] # "idle"

\* a handler that answers at once: the request is recorded with its response
Answer(r, q, response) ==
    /\ pc' = [pc EXCEPT ![r] = "done"]
    /\ req' = [req EXCEPT ![r] = q]
    /\ resp' = [resp EXCEPT ![r] = response]
    /\ UNCHANGED <<managedRepos, repos, disk, repository, cmdIdx, buff, hist,
                   cancelled, tasks, stripIn, stripOut, fixIn, fixOut,
                   accessList, adders>>

RejectProtocol(r) ==
    \E q \in Requests :
        /\ Arrives(r)
        /\ Route(q) = "bad-protocol"
        /\ Answer(r, q, Response(400, "text/plain", <<"accepts only Git protocol v2">>, <<>>))

RejectPath(r) ==
    \E q \in Requests :
        /\ Arrives(r)
        /\ Route(q) = "unsupported"
        /\ Answer(r, q, Response(400, "text/plain", <<"unsupported operation">>, <<>>))

InfoRefs(r) ==
    \E q \in Requests :
        /\ Arrives(r)
        /\ Route(q) = "info-refs"
        /\ Answer(r, q, handleInfoRefs(q))

GitReceivePack(r) ==
    \E q \in Requests :
        /\ Arrives(r)
        /\ Route(q) = "receive-pack"
        /\ Answer(r, q, handleGitReceivePack(q))

-----------------------------------------------------------------------------
(* handleGitUploadPack *)

ResultType == "application/x-git-upload-pack-result"

\* Content-Encoding: gzip and a body gzip.NewReader refuses: 400
UploadPackBadGzip(r) ==
    \E q \in Requests :
        /\ Arrives(r)
        /\ Route(q) = "upload-pack"
        /\ q.ContentEncoding = "gzip"
        /\ gzipNewReader(q) # Nil
        /\ Answer(r, q, Response(400, ResultType,
                  <<"cannot ungzip:">> \o gzipNewReader(q), <<>>))

\* the body is read without a gzip error
BodyRead(q) == q.ContentEncoding = "gzip" => gzipNewReader(q) = Nil

\* the request body does not parse: 400
UploadPackBadBody(r) ==
    \E q \in Requests :
        /\ Arrives(r)
        /\ Route(q) = "upload-pack"
        /\ BodyRead(q)
        /\ parseAllCommands(ScannedBody(q)).err # Nil
        /\ Answer(r, q, Response(400, ResultType,
                  <<"error while parsing commands:">>
                      \o parseAllCommands(ScannedBody(q)).err, <<>>))

\* the credential is extracted and the body parsed; next the registry lookup
UploadPackParsed(r) ==
    \E q \in Requests :
        /\ Arrives(r)
        /\ Route(q) = "upload-pack"
        /\ BodyRead(q)
        /\ parseAllCommands(ScannedBody(q)).err = Nil
        /\ pc' = [pc EXCEPT ![r] = "lookup"]
        /\ req' = [req EXCEPT ![r] = q]
        /\ UNCHANGED <<managedRepos, repos, disk, repository, cmdIdx, buff, resp,
                       hist, cancelled, tasks, stripIn, stripOut, fixIn, fixOut,
                       accessList, adders>>

\* getManagedRepository: managedRepos.Load
Lookup(r) ==
    /\ pc[r] = "lookup"
    /\ repository' = [repository EXCEPT ![r] = getManagedRepository(req[r].URL)]
    /\ pc' = [pc EXCEPT ![r] = IF managedRepositoryExists(req[r].URL)
                                THEN "open" ELSE "create"]
    /\ UNCHANGED <<managedRepos, repos, disk, req, cmdIdx, buff, resp, hist,
                   cancelled, tasks, stripIn, stripOut, fixIn, fixOut,
                   accessList, adders>>

\* createManagedRepository: a new object, stored under its local path
\* (managedRepos.Store replaces whatever is registered there)
createManagedRepository(r) ==
    /\ pc[r] = "create"
    /\ repos' = [repos EXCEPT ![r] = NewManagedRepository(req[r].URL, auth(r))]
    /\ managedRepos' = [managedRepos EXCEPT ![repos'[r].localDiskPath] = r]
    /\ repository' = [repository EXCEPT ![r] = r]
    /\ pc' = [pc EXCEPT ![r] = "open"]
    /\ UNCHANGED <<disk, req, cmdIdx, buff, resp, hist, cancelled, tasks,
                   stripIn, stripOut, fixIn, fixOut, accessList, adders>>

SetMu(id, holder) == [repos EXCEPT ![id].mu = holder]

\* open: r.mu.Lock, then os.Stat. An existing path: unlock and return nil.
\* A missing one: the handler goes on to MkdirAll holding the lock.
OpenStat(r) ==
    /\ pc[r] = "open"
    /\ repo(r).mu = <<>>
    /\ IF localDisk(r).state # "absent"
       THEN /\ pc' = [pc EXCEPT ![r] = "dispatch"]
            /\ UNCHANGED repos
       ELSE /\ pc' = [pc EXCEPT ![r] = "mkdir"]
            /\ repos' = SetMu(repository[r], <<"open", r, 0>>)
    /\ UNCHANGED <<managedRepos, disk, req, repository, cmdIdx, buff, resp, hist,
                   cancelled, tasks, stripIn, stripOut, fixIn, fixOut,
                   accessList, adders>>

\* open: os.MkdirAll
OpenMkdir(r) ==
    /\ pc[r] = "mkdir"
    /\ disk' = [disk EXCEPT ![repo(r).localDiskPath].state =
                   IF @ = "absent" THEN "dir" ELSE @]
    /\ pc' = [pc EXCEPT ![r] = "init"]
    /\ UNCHANGED <<managedRepos, repos, req, repository, cmdIdx, buff, resp, hist,
                   cancelled, tasks, stripIn, stripOut, fixIn, fixOut,
                   accessList, adders>>

\* open failing in os.MkdirAll and taking the mirror out of the registry
MutOpenMkdirFails(r) ==
    /\ pc[r] = "mkdir"
    /\ repos' = SetMu(repository[r], <<>>)
    /\ managedRepos' = [managedRepos EXCEPT ![repo(r).localDiskPath] = 0]
    /\ resp' = [resp EXCEPT ![r] =
                  Response(400, ResultType,
                           <<"error while opening managed repository:",
                             "rpc error: code = Internal desc =",
                             "cannot create a cache dir:",
                             "mkdir: permission denied">>, <<>>)]
    /\ pc' = [pc EXCEPT ![r] = "done"]
    /\ UNCHANGED <<disk, req, repository, cmdIdx, buff, hist,
                   cancelled, tasks, stripIn, stripOut, fixIn, fixOut,
                   accessList, adders>>

\* open: os.MkdirAll fails (the cache root is not writable, the disk is full):
\* the deferred unlock, the error is returned and the handler answers 400
OpenMkdirFails(r) ==
    /\ pc[r] = "mkdir"
    /\ repos' = SetMu(repository[r], <<>>)
    /\ resp' = [resp EXCEPT ![r] =
                  Response(400, ResultType,
                           <<"error while opening managed repository:",
                             "rpc error: code = Internal desc =",
                             "cannot create a cache dir:",
                             "mkdir: permission denied">>, <<>>)]
    /\ pc' = [pc EXCEPT ![r] = "done"]
    /\ UNCHANGED <<managedRepos, disk, req, repository, cmdIdx, buff, hist,
                   cancelled, tasks, stripIn, stripOut, fixIn, fixOut,
                   accessList, adders>>

\* open: the init sequence (git init --bare, five git config, git remote add),
\* then the deferred unlock
OpenInit(r) ==
    /\ pc[r] = "init"
    /\ disk' = [disk EXCEPT ![repo(r).localDiskPath] =
                   Dir("bare", @.refs, @.objects, @.inits + 1)]
    /\ repos' = SetMu(repository[r], <<>>)
    /\ pc' = [pc EXCEPT ![r] = "dispatch"]
    /\ UNCHANGED <<managedRepos, req, repository, cmdIdx, buff, resp, hist,
                   cancelled, tasks, stripIn, stripOut, fixIn, fixOut,
                   accessList, adders>>

\* open: `git init --bare` fails (no space left, no permission in the new
\* directory) and with it the git config and git remote runs; runGit's error
\* is dropped, the lock is released by the deferred unlock and open returns nil
OpenInitFails(r) ==
    /\ pc[r] = "init"
    /\ repos' = SetMu(repository[r], <<>>)
    /\ pc' = [pc EXCEPT ![r] = "dispatch"]
    /\ UNCHANGED <<managedRepos, disk, req, repository, cmdIdx, buff, resp, hist,
                   cancelled, tasks, stripIn, stripOut, fixIn, fixOut,
                   accessList, adders>>

\* the status of a failed command, from the text of its error
ErrorStatus(err) ==
    IF Contains(err, "404") THEN 404
    ELSE IF Contains(err, "401") THEN 401
    ELSE 500

\* handleV2Command returned err: the handler answers with the mapped status
Fail(r, err) ==
    /\ resp' = [resp EXCEPT ![r] =
                  Response(ErrorStatus(err), ResultType,
                           <<"error while processing commands:">> \o err, <<>>)]
    /\ pc' = [pc EXCEPT ![r] = "done"]

\* every command is handled: 200 with the buffer
Finish(r) ==
    /\ pc[r] = "dispatch"
    /\ cmdIdx[r] > Len(commands(r))
    /\ resp' = [resp EXCEPT ![r] = Response(200, ResultType, <<>>, buff[r])]
    /\ pc' = [pc EXCEPT ![r] = "done"]
    /\ UNCHANGED <<managedRepos, repos, disk, req, repository, cmdIdx, buff, hist,
                   cancelled, tasks, stripIn, stripOut, fixIn, fixOut,
                   accessList, adders>>

-----------------------------------------------------------------------------
(* handleV2Command *)

\* lsRefsUpstream: one POST to <upstreamURL>/git-upload-pack with the
\* credential of the request; the chunks of a 200 answer, else an error
\* lsRefsUpstream losing the last chunk of the upstream answer
MutLsRefsUpstream(u, a) ==
    IF UpstreamStatus(u, a) # 200
    THEN [chunks |-> <<>>,
          err |-> <<"got a non-OK response from the upstream:",
                    ToString(UpstreamStatus(u, a))>>]
    ELSE [chunks |-> SubSeq(UpstreamLsRefsChunks, 1, Len(UpstreamLsRefsChunks) - 1),
          err |-> Nil]

lsRefsUpstream(u, a) ==
    IF UpstreamStatus(u, a) # 200
    THEN [chunks |-> <<>>,
          err |-> <<"got a non-OK response from the upstream:",
                    ToString(UpstreamStatus(u, a))>>]
    ELSE [chunks |-> UpstreamLsRefsChunks, err |-> Nil]

\* writeResp appends the chunks to the response buffer
writeResp(w, chunks) == w \o chunks

\* `go repo.fetchUpstream(authentication)` for the current command of r
Spawn(r, notify) ==
    [tasks EXCEPT ![<<r, cmdIdx[r]>>] =
        Task("start", repository[r], auth(r), FALSE, Nil, notify)]

\* the command returned nil: on to the next one
NextCommand(r) ==
    /\ cmdIdx' = [cmdIdx EXCEPT ![r] = @ + 1]
    /\ pc' = [pc EXCEPT ![r] = "dispatch"]

\* case "ls-refs"
LsRefs(r) ==
    /\ pc[r] = "dispatch"
    /\ cmdIdx[r] <= Len(commands(r))
    /\ command(r)[1].Command = "ls-refs"
    /\ LET up == lsRefsUpstream(repo(r).upstreamURL, auth(r))
           upd == hasAnyUpdate(localDisk(r), parseLsRefsResponse(up.chunks))
       IN  /\ hist' = [hist EXCEPT ![r] = Hist(@.posts + 1, FALSE)]
           /\ IF up.err # Nil
              THEN Fail(r, up.err) /\ UNCHANGED <<tasks, buff, cmdIdx>>
              ELSE IF upd.err # Nil
              THEN Fail(r, upd.err) /\ UNCHANGED <<tasks, buff, cmdIdx>>
              ELSE /\ tasks' = IF upd.val THEN Spawn(r, FALSE) ELSE tasks
                   /\ buff' = [buff EXCEPT ![r] = writeResp(@, up.chunks)]
                   /\ NextCommand(r)
                   /\ UNCHANGED resp
    /\ UNCHANGED <<managedRepos, repos, disk, req, repository, cancelled,
                   stripIn, stripOut, fixIn, fixOut, accessList, adders>>

wants(r) == parseFetchWants(command(r))

\* hasAllWants for the wants of the current command, on the disk as it is now
WantsCheck(r) == hasAllWants(localDisk(r), wants(r).hashes, wants(r).refs)

\* serveFetchLocal is started: git upload-pack --stateless-rpc runs
StartServe(r) ==
    /\ pc' = [pc EXCEPT ![r] = "serve"]
    /\ UNCHANGED <<resp, cmdIdx>>

\* case "fetch", up to the want-wait loop
FetchCheck(r) ==
    /\ pc[r] = "dispatch"
    /\ cmdIdx[r] <= Len(commands(r))
    /\ command(r)[1].Command # "ls-refs"
    /\ IF command(r)[1].Command # "fetch"
       THEN \* the switch falls to the error after it
            /\ Fail(r, <<"unknown command">>)
            /\ UNCHANGED <<hist, tasks, cmdIdx>>
       ELSE /\ hist' = [hist EXCEPT ![r].sawAllWants = WantsCheck(r).val]
            /\ IF WantsCheck(r).err # Nil
               THEN Fail(r, WantsCheck(r).err) /\ UNCHANGED <<tasks, cmdIdx>>
               ELSE IF WantsCheck(r).val
               THEN StartServe(r) /\ UNCHANGED tasks
               ELSE /\ tasks' = Spawn(r, TRUE)
                    /\ pc' = [pc EXCEPT ![r] = "wait"]
                    /\ UNCHANGED <<resp, cmdIdx>>
    /\ UNCHANGED <<managedRepos, repos, disk, req, repository, buff, cancelled,
                   stripIn, stripOut, fixIn, fixOut, accessList, adders>>

\* the client goes away; the handler reads its context in the want-wait loop
\* only, so a cancellation is modelled while the handler is there
Cancel(r) ==
    /\ pc[r] = "wait"
    /\ ~cancelled[r]
    /\ cancelled' = [cancelled EXCEPT ![r] = TRUE]
    /\ UNCHANGED <<managedRepos, repos, disk, pc, req, repository, cmdIdx, buff,
                   resp, hist, tasks, stripIn, stripOut, fixIn, fixOut,
                   accessList, adders>>

\* case <-ctx.Done()
WaitCancelled(r) ==
    /\ pc[r] = "wait"
    /\ cancelled[r]
    /\ Fail(r, <<"context canceled">>)
    /\ UNCHANGED <<managedRepos, repos, disk, req, repository, cmdIdx, buff, hist,
                   cancelled, tasks, stripIn, stripOut, fixIn, fixOut,
                   accessList, adders>>

\* the fetchDone case leaving the loop for upload-pack whenever the fetch
\* returned no error
MutWaitFetchDone(r) ==
    /\ pc[r] = "wait"
    /\ tasks[<<r, cmdIdx[r]>>].st = "done"
    /\ hist' = [hist EXCEPT ![r].sawAllWants = WantsCheck(r).val]
    /\ IF WantsCheck(r).err # Nil
       THEN Fail(r, WantsCheck(r).err) /\ UNCHANGED cmdIdx
       ELSE IF tasks[<<r, cmdIdx[r]>>].err # Nil /\ ~WantsCheck(r).val
       THEN Fail(r, tasks[<<r, cmdIdx[r]>>].err) /\ UNCHANGED cmdIdx
       ELSE StartServe(r)
    /\ UNCHANGED <<managedRepos, repos, disk, req, repository, buff, cancelled,
                   tasks, stripIn, stripOut, fixIn, fixOut, accessList, adders>>

\* case err := <-fetchDone
WaitFetchDone(r) ==
    /\ pc[r] = "wait"
    /\ tasks[<<r, cmdIdx[r]>>].st = "done"
    /\ hist' = [hist EXCEPT ![r].sawAllWants = WantsCheck(r).val]
    /\ IF WantsCheck(r).err # Nil
       THEN Fail(r, WantsCheck(r).err) /\ UNCHANGED cmdIdx
       ELSE IF WantsCheck(r).val
       THEN StartServe(r)
       ELSE IF tasks[<<r, cmdIdx[r]>>].err # Nil
       THEN Fail(r, tasks[<<r, cmdIdx[r]>>].err) /\ UNCHANGED cmdIdx
       ELSE NextCommand(r) /\ UNCHANGED resp
    /\ UNCHANGED <<managedRepos, repos, disk, req, repository, buff, cancelled,
                   tasks, stripIn, stripOut, fixIn, fixOut, accessList, adders>>

\* the timer case leaving the loop without reading has-all-wants
MutWaitTimer(r) ==
    /\ pc[r] = "wait"
    /\ hist' = [hist EXCEPT ![r].sawAllWants = TRUE]
    /\ StartServe(r)
    /\ UNCHANGED <<managedRepos, repos, disk, req, repository, buff, cancelled,
                   tasks, stripIn, stripOut, fixIn, fixOut, accessList, adders>>

\* case <-timer.C
WaitTimer(r) ==
    /\ pc[r] = "wait"
    /\ hist' = [hist EXCEPT ![r].sawAllWants = WantsCheck(r).val]
    /\ IF WantsCheck(r).err # Nil
       THEN Fail(r, WantsCheck(r).err) /\ UNCHANGED cmdIdx
       ELSE IF WantsCheck(r).val
       THEN StartServe(r)
       ELSE UNCHANGED <<pc, resp, cmdIdx>>
    /\ UNCHANGED <<managedRepos, repos, disk, req, repository, buff, cancelled,
                   tasks, stripIn, stripOut, fixIn, fixOut, accessList, adders>>

\* what git upload-pack writes for the wants: a pack with the wanted objects
PackFor(d, w) ==
    [Response |-> <<"packfile">>,
     Pack |-> w.hashes \cup {d.refs[n] : n \in w.refs}]

\* serveFetchLocal returning only once the lock of the mirror is free, as it
\* would under r.mu.RLock()
MutServeDone(r) ==
    /\ pc[r] = "serve"
    /\ repo(r).mu = <<>>
    /\ IF ~WantsCheck(r).val
       THEN /\ Fail(r, <<"exit status 128">>)
            /\ UNCHANGED <<buff, cmdIdx, hist>>
       ELSE /\ buff' = [buff EXCEPT ![r] = Append(@, PackFor(localDisk(r), wants(r)))]
            /\ hist' = [hist EXCEPT ![r].sawAllWants = FALSE]
            /\ NextCommand(r)
            /\ UNCHANGED resp
    /\ UNCHANGED <<managedRepos, repos, disk, req, repository, cancelled, tasks,
                   stripIn, stripOut, fixIn, fixOut, accessList, adders>>

\* serveFetchLocal returns: upload-pack has written its output to the buffer.
\* It exits with an error when a wanted object or reference is missing.
ServeDone(r) ==
    /\ pc[r] = "serve"
    /\ IF ~WantsCheck(r).val
       THEN /\ Fail(r, <<"exit status 128">>)
            /\ UNCHANGED <<buff, cmdIdx, hist>>
       ELSE /\ buff' = [buff EXCEPT ![r] = Append(@, PackFor(localDisk(r), wants(r)))]
            /\ hist' = [hist EXCEPT ![r].sawAllWants = FALSE]
            /\ NextCommand(r)
            /\ UNCHANGED resp
    /\ UNCHANGED <<managedRepos, repos, disk, req, repository, cancelled, tasks,
                   stripIn, stripOut, fixIn, fixOut, accessList, adders>>

-----------------------------------------------------------------------------
(* fetchUpstream, run by a goroutine *)

\* results of a git fetch subprocess run with credential a: it fails when
\* upstream refuses the credential and may fail for other reasons
GitFetchResults(u, a) ==
    IF UpstreamStatus(u, a) = 200 THEN {TRUE, FALSE} ELSE {FALSE}

GitError == <<"failed to run a git command:", "exit status 128">>

\* git.PlainOpen and the HEAD lookup, before the lock is requested
FetchOpen(t) ==
    /\ tasks[t].st = "start"
    /\ LET d == disk[repos[tasks[t].repo].localDiskPath]
       IN  tasks' = [tasks EXCEPT ![t] =
              IF PlainOpenOk(d)
              THEN [@ EXCEPT !.st = "lock", !.split = ~HasHEAD(d)]
              ELSE [@ EXCEPT !.st = "done",
                             !.err = <<"cannot open the local cached repository:">>]]
    /\ UNCHANGED <<managedRepos, repos, disk, pc, req, repository, cmdIdx, buff,
                   resp, hist, cancelled, stripIn, stripOut, fixIn, fixOut,
                   accessList, adders>>

\* r.mu.Lock() is granted and the first git fetch subprocess is started
FetchLock(t) ==
    /\ tasks[t].st = "lock"
    /\ repos[tasks[t].repo].mu = <<>>
    /\ repos' = SetMu(tasks[t].repo, <<"fetch", t[1], t[2]>>)
    /\ tasks' = [tasks EXCEPT ![t].st = IF tasks[t].split THEN "phase1" ELSE "phase2"]
    /\ UNCHANGED <<managedRepos, disk, pc, req, repository, cmdIdx, buff, resp,
                   hist, cancelled, stripIn, stripOut, fixIn, fixOut, accessList, adders>>

\* the fetch of refs/heads/* and refs/changes/* ends; on success the full
\* fetch is started, on failure the lock is released and the error returned
FetchPhase1(t) ==
    /\ tasks[t].st = "phase1"
    /\ \E ok \in GitFetchResults(repos[tasks[t].repo].upstreamURL, tasks[t].auth) :
         IF ok
         THEN /\ disk' = [disk EXCEPT ![repos[tasks[t].repo].localDiskPath] =
                    Dir(@.state, HeadsOnly(UpstreamRefs) @@ @.refs,
                        @.objects \cup ObjectsOf(HeadsOnly(UpstreamRefs)), @.inits)]
              /\ tasks' = [tasks EXCEPT ![t].st = "phase2"]
              /\ UNCHANGED repos
         ELSE /\ tasks' = [tasks EXCEPT ![t].st = "done", ![t].err = GitError]
              /\ repos' = SetMu(tasks[t].repo, <<>>)
              /\ UNCHANGED disk
    /\ UNCHANGED <<managedRepos, pc, req, repository, cmdIdx, buff, resp, hist,
                   cancelled, stripIn, stripOut, fixIn, fixOut, accessList, adders>>

\* the full fetch ending without the deferred unlock
MutFetchPhase2(t) ==
    /\ tasks[t].st = "phase2"
    /\ \E ok \in GitFetchResults(repos[tasks[t].repo].upstreamURL, tasks[t].auth) :
         /\ disk' = IF ok
                    THEN [disk EXCEPT ![repos[tasks[t].repo].localDiskPath] =
                            Dir(@.state, UpstreamRefs @@ @.refs,
                                @.objects \cup ObjectsOf(UpstreamRefs), @.inits)]
                    ELSE disk
         /\ tasks' = [tasks EXCEPT ![t].st = "done",
                                   ![t].err = IF ok THEN Nil ELSE GitError]
    /\ UNCHANGED <<managedRepos, repos, pc, req, repository, cmdIdx, buff, resp, hist,
                   cancelled, stripIn, stripOut, fixIn, fixOut, accessList, adders>>

\* the full fetch ends; the lock is released and the error returned
FetchPhase2(t) ==
    /\ tasks[t].st = "phase2"
    /\ \E ok \in GitFetchResults(repos[tasks[t].repo].upstreamURL, tasks[t].auth) :
         /\ disk' = IF ok
                    THEN [disk EXCEPT ![repos[tasks[t].repo].localDiskPath] =
                            Dir(@.state, UpstreamRefs @@ @.refs,
                                @.objects \cup ObjectsOf(UpstreamRefs), @.inits)]
                    ELSE disk
         /\ tasks' = [tasks EXCEPT ![t].st = "done",
                                   ![t].err = IF ok THEN Nil ELSE GitError]
    /\ repos' = SetMu(tasks[t].repo, <<>>)
    /\ UNCHANGED <<managedRepos, pc, req, repository, cmdIdx, buff, resp, hist,
                   cancelled, stripIn, stripOut, fixIn, fixOut, accessList, adders>>

-----------------------------------------------------------------------------
(* The server *)

Next ==
    \/ \E r \in Handlers :
        \/ RejectProtocol(r) \/ RejectPath(r) \/ InfoRefs(r) \/ GitReceivePack(r)
        \/ UploadPackBadGzip(r) \/ UploadPackBadBody(r) \/ UploadPackParsed(r)
        \/ Lookup(r) \/ createManagedRepository(r)
        \/ OpenStat(r) \/ OpenMkdir(r) \/ OpenMkdirFails(r) \/ OpenInit(r)
        \/ OpenInitFails(r)
        \/ Finish(r) \/ LsRefs(r) \/ FetchCheck(r)
        \/ Cancel(r) \/ WaitCancelled(r) \/ WaitFetchDone(r) \/ WaitTimer(r)
        \/ ServeDone(r)
    \/ \E t \in TaskIds :
        FetchOpen(t) \/ FetchLock(t) \/ FetchPhase1(t) \/ FetchPhase2(t)

Spec == Init /\ [][Next]_vars

\* The Go scheduler runs every runnable goroutine and a blocked Lock gets the
\* mutex once it stays free: a started fetchUpstream and a handler inside
\* open() take their next step
FairSpec ==
    /\ Spec
    /\ \A t \in TaskIds :
          /\ WF_vars(FetchOpen(t)) /\ WF_vars(FetchLock(t))
          /\ WF_vars(FetchPhase1(t)) /\ WF_vars(FetchPhase2(t))
    /\ \A r \in Handlers :
          /\ WF_vars(OpenMkdir(r) \/ OpenMkdirFails(r))
          /\ WF_vars(OpenInit(r) \/ OpenInitFails(r))

-----------------------------------------------------------------------------
(* The upload-pack handler alone, serving ls-refs and fetch under a fair
   scheduler *)

\* upload-pack requests for one repository: ls-refs, a fetch of an object
\* the upstream does not have, and a fetch without credentials
LiveRequests ==
    {Request(PathUploadPack, "", "version=2", CredA, BodyLsRefs),
     Request(PathUploadPack, "", "version=2", CredA, BodyFetchGone),
     Request(PathUploadPack, "", "version=2", NoAuth, BodyFetchH1)}

\* a step of handler r inside a fetch command
FetchStep(r) ==
    \/ FetchCheck(r)
    \/ WaitCancelled(r) \/ WaitFetchDone(r) \/ WaitTimer(r)
    \/ ServeDone(r)

\* a step of open made while it holds the lock of the mirror
OpenStep(r) ==
    \/ OpenMkdir(r) \/ OpenMkdirFails(r)
    \/ OpenInit(r) \/ OpenInitFails(r)

\* a step of goroutine t running fetchUpstream
TaskStep(t) == FetchOpen(t) \/ FetchLock(t) \/ FetchPhase1(t) \/ FetchPhase2(t)

NextLive ==
    \/ \E r \in Handlers :
        \/ UploadPackParsed(r) /\ req'[r] \in LiveRequests
        \/ Lookup(r) \/ createManagedRepository(r) \/ OpenStat(r)
        \/ OpenStep(r)
        \/ Finish(r) \/ LsRefs(r)
        \/ FetchStep(r)
        \/ Cancel(r)
    \/ \E t \in TaskIds : TaskStep(t)

\* The Go scheduler runs every runnable goroutine that is in a fetch command,
\* in fetchUpstream or holds a lock; a blocked Lock gets the mutex once it
\* stays free, every git subprocess ends and the timer keeps firing. Requests
\* arrive and clients go away as they please.
SpecLive ==
    /\ Init
    /\ [][NextLive]_vars
    /\ \A r \in Handlers : WF_vars(FetchStep(r)) /\ WF_vars(OpenStep(r))
    /\ \A t \in TaskIds : WF_vars(TaskStep(t))

-----------------------------------------------------------------------------
(* stripGitSuffixes applied repeatedly to a path *)

\* pieces URL paths are built from: path elements, the suffixes the replacer
\* removes, and fragments of them
StripPieces ==
    { <<"/","a">>, <<"/","i","n","f","o">>, <<"/","r","e","f","s">>, SInfoRefs,
      SDotGit, <<".","g">>, <<"i","t">>, SGitUploadPack }

RECURSIVE PiecesUpTo(_)
PiecesUpTo(n) ==
    IF n = 0 THEN { <<>> }
    ELSE PiecesUpTo(n - 1) \cup {s \o p : s \in PiecesUpTo(n - 1), p \in StripPieces}

StripInputs == PiecesUpTo(MaxPieces)

InitStrip ==
    /\ managedRepos = [p \in LocalPaths |-> 0]
    /\ repos = [i \in Handlers |-> NoRepo]
    /\ disk = [p \in LocalPaths |-> NoDir]
    /\ pc = [r \in Handlers |-> "idle"]
    /\ req = [r \in Handlers |-> NoRequest]
    /\ repository = [r \in Handlers |-> 0]
    /\ cmdIdx = [r \in Handlers |-> 1]
    /\ buff = [r \in Handlers |-> <<>>]
    /\ resp = [r \in Handlers |-> NoResponse]
    /\ hist = [r \in Handlers |-> Hist(0, FALSE)]
    /\ cancelled = [r \in Handlers |-> FALSE]
    /\ tasks = [t \in TaskIds |-> NoTask]
    /\ stripIn \in StripInputs
    /\ stripOut = <<>>
    /\ fixIn = URL("", <<>>, <<>>, "")
    /\ fixOut = <<>>
    /\ accessList = <<>>
    /\ adders = <<>>

\* one more application: to the input first, then to the previous result
StripApply ==
    /\ Len(stripOut) < 2
    /\ stripOut' = Append(stripOut,
                      stripGitSuffixes(IF stripOut = <<>> THEN stripIn
                                       ELSE stripOut[Len(stripOut)]))
    /\ UNCHANGED <<managedRepos, repos, disk, pc, req, repository, cmdIdx, buff,
                   resp, hist, cancelled, tasks, stripIn, fixIn, fixOut,
                   accessList, adders>>

NextStrip == StripApply

SpecStrip == InitStrip /\ [][NextStrip]_vars

-----------------------------------------------------------------------------
(* urlFixer applied to a URL *)

\* pieces the paths given to urlFixer are built from
FixPieces == { <<"/","a">>, SDotGit, SInfoRefs, SGitReceivePack, SGitUploadPack }

RECURSIVE FixPaths(_)
FixPaths(n) ==
    IF n = 0 THEN { <<>> }
    ELSE FixPaths(n - 1) \cup {s \o p : s \in FixPaths(n - 1), p \in FixPieces}

\* URLs as net/http and goproxy hand them over, with and without user
\* information, query and fragment
FixInputs ==
    [Scheme : {"http", "https"}, User : {"", "u:p"}, Host : {Host, <<"h",":","8">>},
     Path : FixPaths(MaxPieces), RawQuery : {"", "git-upload-pack"},
     Fragment : {"", "f"}]

InitFix ==
    /\ managedRepos = [p \in LocalPaths |-> 0]
    /\ repos = [i \in Handlers |-> NoRepo]
    /\ disk = [p \in LocalPaths |-> NoDir]
    /\ pc = [r \in Handlers |-> "idle"]
    /\ req = [r \in Handlers |-> NoRequest]
    /\ repository = [r \in Handlers |-> 0]
    /\ cmdIdx = [r \in Handlers |-> 1]
    /\ buff = [r \in Handlers |-> <<>>]
    /\ resp = [r \in Handlers |-> NoResponse]
    /\ hist = [r \in Handlers |-> Hist(0, FALSE)]
    /\ cancelled = [r \in Handlers |-> FALSE]
    /\ tasks = [t \in TaskIds |-> NoTask]
    /\ stripIn = <<>>
    /\ stripOut = <<>>
    /\ fixIn \in FixInputs
    /\ fixOut = <<>>
    /\ accessList = <<>>
    /\ adders = <<>>

FixApply ==
    /\ fixOut = <<>>
    /\ fixOut' = <<urlFixer(fixIn)>>
    /\ UNCHANGED <<managedRepos, repos, disk, pc, req, repository, cmdIdx, buff,
                   resp, hist, cancelled, tasks, stripIn, stripOut, fixIn, accessList,
                   adders>>

NextFix == FixApply

SpecFix == InitFix /\ [][NextFix]_vars

-----------------------------------------------------------------------------
(* Add and HasAccess called on one mirror by concurrent goroutines *)

\* number of goroutines calling Add
NumAdders == 2

Adders == 1..NumAdders

\* the strings passed to Add and to createManagedRepository
AccessCreds == { <<"a">>, <<"b">>, <<"c">> }

\* slices.Contains(r.accessList, auth)
HasAccess(list, a) == \E i \in 1..Len(list) : list[i] = a

Adder(at, a, old) == [pc |-> at, auth |-> a, old |-> old]

\* the mirror was created without a credential or with one
InitAccess ==
    /\ managedRepos = [p \in LocalPaths |-> 0]
    /\ repos = [i \in Handlers |-> NoRepo]
    /\ disk = [p \in LocalPaths |-> NoDir]
    /\ pc = [r \in Handlers |-> "idle"]
    /\ req = [r \in Handlers |-> NoRequest]
    /\ repository = [r \in Handlers |-> 0]
    /\ cmdIdx = [r \in Handlers |-> 1]
    /\ buff = [r \in Handlers |-> <<>>]
    /\ resp = [r \in Handlers |-> NoResponse]
    /\ hist = [r \in Handlers |-> Hist(0, FALSE)]
    /\ cancelled = [r \in Handlers |-> FALSE]
    /\ tasks = [t \in TaskIds |-> NoTask]
    /\ stripIn = <<>>
    /\ stripOut = <<>>
    /\ fixIn = URL("", <<>>, <<>>, "")
    /\ fixOut = <<>>
    /\ accessList \in {<<>>} \cup {<<a>> : a \in AccessCreds}
    /\ adders = [c \in Adders |-> Adder("idle", <<>>, <<>>)]

\* Add(auth) is called and r.mu.RLock() granted: a read lock excludes writers
\* only, and nothing holds the write lock here
AddRLock(c) ==
    /\ adders[c].pc = "idle"
    /\ \E a \in AccessCreds : adders' = [adders EXCEPT ![c] = Adder("rlocked", a, <<>>)]
    /\ UNCHANGED <<managedRepos, repos, disk, pc, req, repository, cmdIdx, buff,
                   resp, hist, cancelled, tasks, stripIn, stripOut, fixIn, fixOut,
                   accessList>>

\* append reads the slice r.accessList
AddRead(c) ==
    /\ adders[c].pc = "rlocked"
    /\ adders' = [adders EXCEPT ![c].pc = "read", ![c].old = accessList]
    /\ UNCHANGED <<managedRepos, repos, disk, pc, req, repository, cmdIdx, buff,
                   resp, hist, cancelled, tasks, stripIn, stripOut, fixIn, fixOut,
                   accessList>>

\* the slice append built is assigned to r.accessList; the deferred RUnlock
AddWrite(c) ==
    /\ adders[c].pc = "read"
    /\ accessList' = Append(adders[c].old, adders[c].auth)
    /\ adders' = [adders EXCEPT ![c].pc = "returned"]
    /\ UNCHANGED <<managedRepos, repos, disk, pc, req, repository, cmdIdx, buff,
                   resp, hist, cancelled, tasks, stripIn, stripOut, fixIn, fixOut>>

NextAccess == \E c \in Adders : AddRLock(c) \/ AddRead(c) \/ AddWrite(c)

SpecAccess == InitAccess /\ [][NextAccess]_vars

-----------------------------------------------------------------------------
(* Properties *)

\* the three suffixes urlFixer knows
FixSuffixes == {SInfoRefs, SGitReceivePack, SGitUploadPack}

\* C11: the URL urlFixer returns has scheme https, the host of its input, the
\* path of its input without its trailing /info/refs, /git-receive-pack or
\* /git-upload-pack, and no query, no fragment and no user information
C11_UrlFixer ==
    fixOut # <<>> =>
        /\ fixOut[1].Scheme = "https"
        /\ fixOut[1].Host = fixIn.Host
        /\ \A suffix \in FixSuffixes :
              HasSuffix(fixIn.Path, suffix) => fixOut[1].Path \o suffix = fixIn.Path
        /\ (\A suffix \in FixSuffixes : ~HasSuffix(fixIn.Path, suffix))
              => fixOut[1].Path = fixIn.Path
        /\ fixOut[1].RawQuery = ""
        /\ fixOut[1].Fragment = ""
        /\ fixOut[1].User = ""

\* urlFixer has answered for a URL with user information, query and fragment
\* whose path ends in two of the suffixes: only the last one is gone
C11_Witness ==
    /\ fixOut # <<>>
    /\ fixIn.User # "" /\ fixIn.RawQuery # "" /\ fixIn.Fragment # ""
    /\ fixIn.Path = SDotGit \o SInfoRefs \o SGitUploadPack
    /\ fixOut[1].Path = SDotGit \o SInfoRefs

\* C10: stripping the suffixes is idempotent: a second application of
\* stripGitSuffixes returns what the first returned
C10_StripIdempotent == Len(stripOut) = 2 => stripOut[2] = stripOut[1]


\* the git fetch subprocesses running against local path p
RunningFetches(p) ==
    {t \in TaskIds : /\ tasks[t].st \in {"phase1", "phase2"}
                     /\ repos[tasks[t].repo].localDiskPath = p}

\* C1: at any instant at most one upstream git fetch subprocess runs against
\* the local path of a mirror, whatever the interleaving of the requests
C1_AtMostOneFetch == \A p \in LocalPaths : Cardinality(RunningFetches(p)) <= 1

\* C2: upload-pack runs for a fetch command only after an evaluation of
\* has-all-wants for the wants of that command returned true
C2_ServeAfterAllWants ==
    \A r \in Handlers : pc[r] = "serve" => hist[r].sawAllWants /\ WantsCheck(r).val

\* C2 witness: a fetch command is served after waiting for its upstream fetch
C2_Witness ==
    \E r \in Handlers : pc[r] = "serve" /\ tasks[<<r, cmdIdx[r]>>].st # "none"

HasPack(chunks) ==
    \E i \in 1..Len(chunks) : chunks[i].Response = <<"packfile">> /\ chunks[i].Pack # {}

\* C3: a fetch that carries no credential is never answered with pack data
\* served from a mirror registered as private
C3_NoPackFromPrivateMirror ==
    \A r \in Handlers :
        (/\ pc[r] = "done"
         /\ req[r].Authorization = NoAuth
         /\ Route(req[r]) = "upload-pack"
         /\ resp[r].status = 200
         /\ HasPack(resp[r].chunks))
        => repo(r).isPublic

\* C4: a request that created the registry entry of a mirror and has been
\* answered was authorized by upstream; a rejected request leaves no entry
\* and no repository on disk
C4_RegisteredOnlyIfAuthorized ==
    \A r \in Handlers :
        (/\ pc[r] = "done"
         /\ repository[r] = r
         /\ \/ managedRepos[repos[r].localDiskPath] = r
            \/ disk[repos[r].localDiskPath].state # "absent")
        => /\ UpstreamStatus(repos[r].upstreamURL, auth(r)) = 200
           /\ resp[r].status \notin {401, 404}

\* C5: a mirror is public with an empty access list only if the request that
\* created it carried no Authorization credential; created by a request with
\* a credential it is private and its access list is that credential
C5_PublicOnlyIfUnauthenticated ==
    \A r \in Handlers :
        repository[r] = r =>
            /\ (repos[r].isPublic /\ repos[r].accessList = <<>>)
                   => req[r].Authorization = <<>>
            /\ req[r].Authorization # <<>>
                   => ~repos[r].isPublic /\ repos[r].accessList = <<req[r].Authorization>>

\* the registry entry for the local path of a request, read from the state
RegisteredFor(q) == managedRepos[Join(<<LocalDiskCacheRoot, q.URL.Host, stripGitSuffixes(q.URL.Path)>>)]

\* C6: a version 2 request to /info/refs?service=git-upload-pack is passed
\* through when no mirror is registered, answered 401 when the mirror is
\* private and the request has no Authorization header, and otherwise
\* answered 200 with the canned advertisement, which has no ref-in-want
C6_InfoRefsOutcome ==
    [][\A r \in Handlers :
         (/\ pc[r] = "idle" /\ pc'[r] = "done"
          /\ req'[r].GitProtocol = "version=2"
          /\ HasSuffix(req'[r].URL.Path, SInfoRefs)
          /\ req'[r].URL.RawQuery = "git-upload-pack")
         => IF RegisteredFor(req'[r]) = 0
            THEN resp'[r].status = 0 /\ resp'[r].kind = "forwarded"
            ELSE IF ~repos[RegisteredFor(req'[r])].isPublic /\ req'[r].Authorization = <<>>
            THEN resp'[r].status = 401
            ELSE /\ resp'[r].status = 200
                 /\ resp'[r].chunks = <<"version 2", "ls-refs", "fetch=filter shallow",
                                        "server-option", "0000">>
                 /\ \A i \in 1..Len(resp'[r].chunks) : resp'[r].chunks[i] # "ref-in-want"
      ]_vars

\* C6 witness: /info/refs without an Authorization header is answered 401
\* while a private mirror is registered for the repository
C6_Witness ==
    \E r \in Handlers :
        /\ pc[r] = "done"
        /\ Route(req[r]) = "info-refs"
        /\ req[r].URL.RawQuery = "git-upload-pack"
        /\ RegisteredFor(req[r]) # 0
        /\ ~repos[RegisteredFor(req[r])].isPublic
        /\ resp[r].status = 401

\* C7: a request whose path ends in /git-receive-pack is answered 400 whatever
\* its Authorization and Git-Protocol headers and whatever the registry holds
C7_ReceivePackRefused ==
    \A r \in Handlers :
        (pc[r] = "done" /\ HasSuffix(req[r].URL.Path, SGitReceivePack))
        => resp[r].status = 400

\* C7 witness: a version 2 receive-pack request with a credential is refused
\* while a mirror is registered for its repository
C7_Witness ==
    \E r \in Handlers :
        /\ pc[r] = "done"
        /\ HasSuffix(req[r].URL.Path, SGitReceivePack)
        /\ req[r].GitProtocol = "version=2"
        /\ req[r].Authorization = CredA
        /\ RegisteredFor(req[r]) # 0
        /\ resp[r].status = 400

\* C8: an ls-refs command that writes output has made one upstream POST and
\* writes exactly the chunks upstream returned, in order
C8_LsRefsProxied ==
    [][\A r \in Handlers :
         (/\ pc[r] = "dispatch"
          /\ cmdIdx[r] <= Len(commands(r))
          /\ command(r)[1].Command = "ls-refs"
          /\ buff'[r] # buff[r])
         => /\ hist'[r].posts = hist[r].posts + 1
            /\ UpstreamStatus(repo(r).upstreamURL, auth(r)) = 200
            /\ buff'[r] = buff[r] \o UpstreamLsRefsChunks
      ]_vars

\* C8 witness: an ls-refs command was answered from a mirror that already
\* holds every upstream reference
C8_Witness ==
    \E r \in Handlers :
        /\ pc[r] = "done"
        /\ resp[r].status = 200
        /\ resp[r].chunks = UpstreamLsRefsChunks
        /\ hist[r].posts = 1
        /\ tasks[<<r, 1>>].st = "none"

\* C9: two requests for one URL that race through lookup-or-create leave one
\* registry entry, both work on the registered mirror, and the init sequence
\* runs at most once on disk
C9_CreateIdempotent ==
    /\ \A r \in Handlers :
         repository[r] # 0 => managedRepos[repo(r).localDiskPath] = repository[r]
    /\ \A p \in LocalPaths : disk[p].inits <= 1

\* the chunks of the body name a command that is neither ls-refs nor fetch
NamesOtherCommand(body) ==
    \E i \in 1..Len(body) : body[i].Command \notin {"", "ls-refs", "fetch"}

\* C12: an upload-pack request whose body holds a command other than ls-refs
\* and fetch is answered 400 with "unrecognized command" by the parser, before
\* the handler looks a mirror up or creates one; the dispatcher's "unknown
\* command" error reaches no response
C12_UnknownCommandRejected ==
    \A r \in Handlers :
        /\ ~Contains(resp[r].text, "unknown command")
        /\ ( /\ req[r] # NoRequest
             /\ Route(req[r]) = "upload-pack"
             /\ BodyRead(req[r])
             /\ NamesOtherCommand(ScannedBody(req[r])) )
           => /\ pc[r] = "done"
              /\ resp[r].status = 400
              /\ Contains(resp[r].text, "unrecognized command:")
              /\ repository[r] = 0
              /\ \A p \in LocalPaths : managedRepos[p] # r

\* a request whose second command is unknown has been answered 400 while the
\* other request has registered a mirror
C12_Witness ==
    \E r, o \in Handlers :
        /\ req[r] # NoRequest
        /\ req[r].Body = BodyLsThenUnknown
        /\ resp[r].status = 400
        /\ Contains(resp[r].text, "unrecognized command:")
        /\ \E p \in LocalPaths : managedRepos[p] = o

\* handler r alone has sent an upload-pack request for its local path
OnlyRequestFor(r) ==
    \A o \in Handlers \ {r} :
        \/ req[o] = NoRequest
        \/ Route(req[o]) # "upload-pack"
        \/ getLocalGitRepositoryPath(req[o].URL) # getLocalGitRepositoryPath(req[r].URL)

\* C13: an ls-refs request that upstream answers with 404 is answered 404 and
\* leaves the mirror as it was before the request; when no other request has
\* addressed the URL that is the initial state: no registry entry, no
\* repository on disk and no fetch launched
C13_NotFoundLeavesMirror ==
    \A r \in Handlers :
        ( /\ pc[r] = "done"
          /\ Route(req[r]) = "upload-pack"
          /\ commands(r) # <<>>
          /\ commands(r)[1][1].Command = "ls-refs"
          /\ hist[r].posts > 0
          /\ UpstreamStatus(urlFixer(req[r].URL), auth(r)) = 404 )
        => /\ resp[r].status = 404
           /\ OnlyRequestFor(r) =>
                 /\ managedRepos[getLocalGitRepositoryPath(req[r].URL)] = 0
                 /\ disk[getLocalGitRepositoryPath(req[r].URL)] = NoDir
                 /\ \A c \in 1..MaxCommands : tasks[<<r, c>>] = NoTask

\* C14: once the body is parsed, a request that fails in opening the mirror
\* or in a command is answered by the text of the error: 404 when it contains
\* "404", 401 when it contains "401", 500 otherwise
C14_ErrorsMappedByText ==
    \A r \in Handlers :
        ( /\ pc[r] = "done"
          /\ Route(req[r]) = "upload-pack"
          /\ BodyRead(req[r])
          /\ parseAllCommands(ScannedBody(req[r])).err = Nil
          /\ resp[r].status # 200 )
        => resp[r].status = IF Contains(resp[r].text, "404") THEN 404
                            ELSE IF Contains(resp[r].text, "401") THEN 401
                            ELSE 500

\* the requests the proxy refuses as bad requests:
\* a Git-Protocol header other than version=2, a receive-pack path, an
\* info/refs path with another service, a path with none of the three
\* suffixes, an upload-pack body that does not decompress or does not parse
BadRequest(q) ==
    \/ q.GitProtocol # "version=2"
    \/ HasSuffix(q.URL.Path, SGitReceivePack)
    \/ HasSuffix(q.URL.Path, SInfoRefs) /\ q.URL.RawQuery # "git-upload-pack"
    \/ \A suffix \in FixSuffixes : ~HasSuffix(q.URL.Path, suffix)
    \/ /\ HasSuffix(q.URL.Path, SGitUploadPack)
       /\ \/ q.ContentEncoding = "gzip" /\ ~q.Gzipped
          \/ q.ContentEncoding # "gzip" /\ q.Gzipped
          \/ \E i \in 1..Len(q.Body) : q.Body[i].Malformed
          \/ NamesOtherCommand(q.Body)

Stale(d) ==
    \E n \in DOMAIN UpstreamRefs : n \notin DOMAIN d.refs \/ d.refs[n] # UpstreamRefs[n]

\* handler r receives a 200 answer to the POST of its ls-refs command
LsRefsAnswered(r) ==
    /\ hist'[r].posts = hist[r].posts + 1
    /\ UpstreamStatus(repo(r).upstreamURL, auth(r)) = 200

\* C16: an ls-refs command whose upstream call succeeded launches a background
\* fetch if and only if the advertisement names a reference absent locally or
\* with another hash locally, writes the upstream answer and returns without
\* waiting for that fetch; and a launched fetch eventually runs git fetch
C16_LsRefsLaunchesFetch ==
    /\ [][\A r \in Handlers :
            LsRefsAnswered(r) =>
              /\ (tasks'[<<r, cmdIdx[r]>>].st = "start") <=> Stale(localDisk(r))
              /\ \A t \in TaskIds \ {<<r, cmdIdx[r]>>} : tasks'[t] = tasks[t]
              /\ ~tasks'[<<r, cmdIdx[r]>>].notify
              /\ buff'[r] = buff[r] \o UpstreamLsRefsChunks
              /\ pc'[r] = "dispatch"
              /\ cmdIdx'[r] = cmdIdx[r] + 1]_vars
    /\ \A t \in TaskIds :
          (tasks[t].st = "start" /\ ~tasks[t].notify)
              ~> (tasks[t].st \in {"phase1", "phase2"})

\* the goroutine handler r launched for its current command
FetchOf(r) == tasks[<<r, cmdIdx[r]>>]

\* every hash and every want-ref of the current command of r is in its mirror
WantsPresent(r) ==
    /\ PlainOpenOk(localDisk(r))
    /\ \A h \in SelectWords(command(r), "want") : h \in localDisk(r).objects
    /\ \A n \in SelectWords(command(r), "want-ref") : n \in DOMAIN localDisk(r).refs

\* C17: in the want-wait loop, when the upstream fetch has completed without
\* error and the wants are still missing, the command leaves the loop for
\* upload-pack: it does not end without running upload-pack
C17_ServeAfterFetchDone ==
    [][\A r \in Handlers :
          ( /\ pc[r] = "wait"
            /\ ~cancelled[r]
            /\ FetchOf(r).st = "done"
            /\ FetchOf(r).err = Nil
            /\ PlainOpenOk(localDisk(r))
            /\ ~WantsPresent(r)
            /\ pc'[r] # "wait" )
          => pc'[r] = "serve"]_vars

C19_CancelReturnsError ==
    [][\A r \in Handlers :
          (pc[r] = "wait" /\ cancelled[r] /\ pc'[r] # "wait")
          => /\ \/ pc'[r] = "done" /\ Contains(resp'[r].text, "context canceled")
                \/ pc'[r] = "serve" /\ WantsPresent(r)
             /\ tasks' = tasks
             /\ repos' = repos]_vars

\* C20: a fetch command whose wants are all present at the initial check
\* goes to serve in that step: it launches no upstream fetch and takes no lock
C20_SatisfiedWantsServeDirectly ==
    [][\A r \in Handlers :
          ( /\ pc[r] = "dispatch"
            /\ cmdIdx[r] <= Len(commands(r))
            /\ command(r)[1].Command = "fetch"
            /\ WantsPresent(r)
            /\ pc'[r] # pc[r] )
          => /\ pc'[r] = "serve"
             /\ cmdIdx'[r] = cmdIdx[r]
             /\ tasks' = tasks
             /\ repos' = repos]_vars

\* upload-pack has started for a command with a want that launched no upstream
\* fetch, while the fetch of the other request holds the write lock of its mirror
C20_Witness ==
    \E r \in Handlers :
        /\ pc[r] = "serve"
        /\ SelectWords(command(r), "want") # {}
        /\ FetchOf(r).st = "none"
        /\ repo(r).mu # <<>>
        /\ repo(r).mu[1] = "fetch"
        /\ repo(r).mu[2] # r

\* C21: once an upstream fetch of a mirror has completed without error, the
\* last-update time of the mirror is a completion time, not the zero time
C21_LastUpdateRecorded ==
    \A t \in TaskIds :
        (tasks[t].st = "done" /\ tasks[t].err = Nil)
        => LastUpdateTime(tasks[t].repo) > 0

\* repository.open() has returned nil to handler r
Opened(r) ==
    \/ pc[r] \in {"dispatch", "wait", "serve"}
    \/ /\ pc[r] = "done"
       /\ repository[r] # 0
       /\ ~Contains(resp[r].text, "error while opening managed repository:")

\* C22: the local path of every registered mirror that open has returned nil
\* for is an initialized bare repository
C22_OpenedIsBare ==
    \A r \in Handlers :
        (Opened(r) /\ managedRepos[repo(r).localDiskPath] = repository[r])
        => PlainOpenOk(localDisk(r))

\* C23: the upstream fetch that is granted the write lock starts with the
\* fetch of heads and changes exactly when the local repository has no HEAD
\* reference at that time, and with the full fetch otherwise; a failed first
\* phase ends the fetch
C23_TwoPhaseWhenNoHead ==
    [][\A t \in TaskIds :
          /\ (tasks[t].st = "lock" /\ tasks'[t].st # "lock")
             => (tasks'[t].st = "phase1"
                   <=> ~HasHEAD(disk[repos[tasks[t].repo].localDiskPath]))
          /\ (tasks[t].st = "phase1" /\ tasks'[t].st # "phase1" /\ disk' = disk)
             => tasks'[t].st = "done" /\ tasks'[t].err # Nil]_vars

\* the handlers inside the initialization of open() for local path p
RunningInits(p) ==
    {r \in Handlers : pc[r] \in {"mkdir", "init"} /\ repo(r).localDiskPath = p}

\* C24: for each mirror at most one of the initialization inside open and the
\* upstream fetch subprocesses runs at any instant, and a write lock that is
\* held is held by an initialization or a fetch that is still running
C24_InitFetchExclusive ==
    /\ \A p \in LocalPaths :
         Cardinality(RunningInits(p)) + Cardinality(RunningFetches(p)) <= 1
    /\ \A i \in Handlers :
         repos[i].mu # <<>> =>
            IF repos[i].mu[1] = "open"
            THEN pc[repos[i].mu[2]] \in {"mkdir", "init"}
            ELSE tasks[<<repos[i].mu[2], repos[i].mu[3]>>].st \in {"phase1", "phase2"}

\* C25: a running local serve can finish whoever holds the write lock of its
\* mirror, an upstream fetch waiting for a free write lock can take it whatever
\* serves are running, and the steps that start and end a serve change no lock
C25_ServeTakesNoLock ==
    /\ [](\A r \in Handlers : pc[r] = "serve" => ENABLED ServeDone(r))
    /\ [](\A t \in TaskIds :
            (tasks[t].st = "lock" /\ repos[tasks[t].repo].mu = <<>>)
            => ENABLED FetchLock(t))
    /\ [][\A r \in Handlers :
            (pc'[r] # pc[r] /\ "serve" \in {pc[r], pc'[r]}) => repos' = repos]_vars

\* every handler is running a local serve on one mirror, whose write lock an
\* upstream fetch is about to take
C25_Witness ==
    /\ \A r \in Handlers : pc[r] = "serve"
    /\ \E t \in TaskIds :
         /\ tasks[t].st = "lock"
         /\ repos[tasks[t].repo].mu = <<>>
         /\ \A r \in Handlers : repository[r] = tasks[t].repo

\* C26: once every Add call has returned, HasAccess is true for each
\* credential that was added, and a credential in the list stays in it
C26_AddKeepsEveryCredential ==
    /\ []((\A c \in Adders : adders[c].pc = "returned")
            => \A c \in Adders : HasAccess(accessList, adders[c].auth))
    /\ [][\A a \in AccessCreds :
            HasAccess(accessList, a) => HasAccess(accessList', a)]_vars

\* C28: no step removes an entry of the registry, so Exists and Get stay true
\* for a registered URL; an /info/refs request for a URL with a registered
\* mirror is not passed through to upstream; and no response is the 500
\* "could not verify if repository exists"
C28_RegistryOnlyGrows ==
    /\ [][\A p \in LocalPaths : managedRepos[p] # 0 => managedRepos'[p] # 0]_vars
    /\ [][\A r \in Handlers :
            ( /\ pc[r] = "idle" /\ pc'[r] = "done"
              /\ Route(req'[r]) = "info-refs"
              /\ \/ RegisteredFor(req'[r]) # 0
                 \/ \E o \in Handlers :
                       /\ repository[o] # 0
                       /\ repo(o).localDiskPath = getLocalGitRepositoryPath(req'[r].URL) )
            => resp'[r] # PassThrough]_vars
    /\ [](\A r \in Handlers :
            ~Contains(resp[r].text, "could not verify if repository exists"))

\* an /info/refs request has been answered with the advertisement after the
\* request that registered the mirror was refused by upstream
C28_Witness ==
    \E r, o \in Handlers :
        /\ pc[r] = "done"
        /\ Route(req[r]) = "info-refs"
        /\ resp[r].status = 200
        /\ pc[o] = "done"
        /\ repository[o] = o
        /\ resp[o].status \in {401, 404, 500}

\* C29: the mirror a request has looked up or created has the canonical
\* upstream URL of the URL the request is addressed to
C29_OneUpstreamPerMirror ==
    \A r \in Handlers :
        repository[r] # 0 => repo(r).upstreamURL = urlFixer(req[r].URL)

\* handler r is in a fetch command, the k-th of its request
InFetch(r, k) ==
    /\ cmdIdx[r] = k
    /\ \/ pc[r] \in {"wait", "serve"}
       \/ /\ pc[r] = "dispatch"
          /\ k <= Len(commands(r))
          /\ command(r)[1].Command = "fetch"

\* C27: under a fair scheduler every fetch command returns: the request is
\* answered or goes on to its next command
C27_FetchReturns ==
    \A r \in Handlers : \A k \in 1..MaxCommands :
        InFetch(r, k) ~> (pc[r] = "done" \/ cmdIdx[r] > k)

\* both requests wait in the want-wait loop for fetches of one mirror, one of
\* which is queued behind the other
C27_Witness ==
    /\ \A r \in Handlers : pc[r] = "wait"
    /\ \E t, u \in TaskIds :
         /\ tasks[t].st \in {"phase1", "phase2"}
         /\ tasks[u].st = "lock"
         /\ tasks[u].repo = tasks[t].repo

====
